---- MODULE Spec2Model ----
(***************************************************************************)
(* A model of netbox_exporter.py: the paginated fetch, the reference       *)
(* cache, the reduction of raw objects (_clean_object), the tabular codec  *)
(* (_flatten_dict, _save_csv and the row decoding of import_from_csv),     *)
(* the export driver (export_all) and the import driver (import_all,       *)
(* import_from_csv).                                                       *)
(*                                                                         *)
(* Python values are tagged records.  A dict is a function from keys to    *)
(* values; a key is the sequence of the "."-free segments of the Python    *)
(* key string, so that "a.b" is <<"a", "b">>, f"{k}.{sub}" is \o and       *)
(* key.split(".") is the key itself.                                       *)
(***************************************************************************)
EXTENDS Integers, Sequences, FiniteSets, TLC

VARIABLES
    \* _save_csv followed by the row decoding of import_from_csv
    c_pc,       \* "start", "saved", "nofile", "read"
    c_data,     \* result["data"]: the reduced objects to save
    c_file,     \* the CSV file written
    c_out       \* the data decoded from each row of the file

VARIABLES
    \* NetBoxImporter.import_all and import_from_csv
    i_pc,            \* "start", "files", "rows", "done", "crashed"
    has_manifest,    \* os.path.exists(manifest_path)
    dir_files,       \* the CSV files of export_dir: relative path -> file
    files_to_import, \* import_all's list of relative paths
    f_idx,           \* position of import_all's loop in files_to_import
    rows,            \* import_from_csv: list(reader)
    r_idx,           \* import_from_csv: i of enumerate(rows)
    success,         \* import_from_csv: success
    errors,          \* import_from_csv: errors
    posts,           \* every session.post issued, in order
    ret,             \* what each finished import_from_csv call returned, in order
    error_logs,      \* the *_errors.json files written: path -> errors
    total_success,   \* import_all: total_success
    total_errors     \* import_all: total_errors

VARIABLES
    \* export_model after the fetch: the reduction of the fetched objects
    k_pc,        \* "start", "clean", "returned", "crashed"
    k_results,   \* results: what _get returned
    k_idx,       \* how many items the loop has cleaned
    k_cleaned,   \* cleaned_results
    k_result     \* what export_model returned

VARIABLES
    \* NetBoxExporter.export_all, export_model and _get
    e_pc,          \* "loop", "request", "backoff", "fetched", "Done"
    m_idx,         \* position of export_all's loop in MODELS_ORDERED
    offset,        \* _get: offset
    all_results,   \* _get: all_results
    e_results,     \* export_model: results, what _get returned
    fetched,       \* what _get returned for each descriptor done so far
    full_export,   \* export_all: full_export, by relative path
    total_objects, \* export_all: total_objects
    csv_files,     \* the CSV files written: relative path -> file
    json_file,     \* full_export.json: written or not, and its content
    manifest,      \* manifest.json: written or not, and its content
    server,        \* the remote service: per descriptor, its pages
    down           \* the descriptors for which every GET fails

VARIABLES
    \* NetBoxExporter._get_cached, called with one reference after another
    cache,      \* self._cache: url -> data
    calls,      \* how many calls of _get_cached have returned
    gets,       \* how many session.get the calls have issued
    q_url,      \* the url the last call was given
    q_ret,      \* what the last call returned
    resolved    \* the object the first successful call returned, per url given

codecVars == <<c_pc, c_data, c_file, c_out>>
exportVars == <<e_pc, m_idx, offset, all_results, e_results, fetched, full_export,
                total_objects, csv_files, json_file, manifest, server, down>>
cleanVars == <<k_pc, k_results, k_idx, k_cleaned, k_result>>
importVars == <<i_pc, has_manifest, dir_files, files_to_import, f_idx, rows, r_idx,
                success, errors, posts, ret, error_logs, total_success, total_errors>>
cacheVars == <<cache, calls, gets, q_url, q_ret, resolved>>
vars == <<codecVars, importVars, cleanVars, exportVars, cacheVars>>

(***************************************************************************)
(* Bounds                                                                  *)
(***************************************************************************)
\* Largest number among the scalar values.
MaxNum == 1
\* Most rows of one CSV file.
MaxRows == 3
\* Longest list among the values of a raw object.
MaxListLen == 2
\* Most pages the remote service holds for one descriptor.
MaxPages == 2
\* The page size the exporter asks for (self.limit, 1000 unless given).
PageLimit == 2
MaxCalls == 4

SeqsUpTo(S, n) == UNION {[1..k -> S] : k \in 0..n}

(***************************************************************************)
(* Python values                                                           *)
(***************************************************************************)
Null      == [t |-> "null"]
Bool(b)   == [t |-> "bool", b |-> b]
Num(n)    == [t |-> "num", n |-> n]
Str(s)    == [t |-> "str", s |-> s]
\* The str that json.dumps(v) returns, kept symbolic.
JsonText(v) == [t |-> "jsontext", of |-> v]
Map(m)    == [t |-> "map", m |-> m]
List(q)   == [t |-> "list", q |-> q]
\* What a raising call leaves instead of a value.
Raise     == [t |-> "raise"]

IsDict(v) == v.t = "map"
IsList(v) == v.t = "list"
IsStr(v)  == v.t \in {"str", "jsontext"}

EmptyDict == <<>>

\* bool(v): Python truthiness.
Truthy(v) ==
    CASE v.t = "null"     -> FALSE
      [] v.t = "bool"     -> v.b
      [] v.t = "num"      -> v.n # 0
      [] v.t = "str"      -> v.s # ""
      [] v.t = "jsontext" -> TRUE
      [] v.t = "map"      -> DOMAIN v.m # {}
      [] v.t = "list"     -> Len(v.q) > 0

\* str(v) of a value that is neither None, a list nor a dict.
PyStr(v) ==
    CASE v.t = "str"      -> v
      [] v.t = "jsontext" -> v
      [] v.t = "num"      -> Str(ToString(v.n))
      [] v.t = "bool"     -> Str(IF v.b THEN "True" ELSE "False")
      [] v.t = "null"     -> Str("None")

\* json.dumps(v) of a list or a dict.
JsonDumps(v) == JsonText(v)

\* The strings of the model that begin with "[" or "{" and are no JSON text.
BrokenJson == {"[x", "{x"}

\* value.startswith("[") or value.startswith("{")
StartsWithBracket(v) ==
    \/ v.t = "jsontext" /\ v.of.t \in {"list", "map"}
    \/ v.t = "str" /\ v.s \in BrokenJson

\* json.loads(value) inside try/except: the parsed value, else the string itself.
JsonLoadsOrLiteral(v) == IF v.t = "jsontext" THEN v.of ELSE v

(***************************************************************************)
(* Keys and their order                                                    *)
(***************************************************************************)
\* The order of Python's str comparison on the segments the model uses.
SegRank ==
    "a" :> 1 @@ "b" :> 2 @@ "c" :> 3 @@ "detail" :> 4 @@ "id" :> 5 @@ "name" :> 6 @@
    "site" :> 7 @@ "slug" :> 8 @@ "tags" :> 9 @@ "x" :> 10

RECURSIVE KeyLess(_, _)
\* k1 < k2 as Python strings ("." sorts before every letter, so a key sorts
\* before each of its extensions and otherwise by its first differing segment).
KeyLess(k1, k2) ==
    IF k1 = <<>> THEN k2 # <<>>
    ELSE IF k2 = <<>> THEN FALSE
    ELSE IF Head(k1) = Head(k2) THEN KeyLess(Tail(k1), Tail(k2))
    ELSE SegRank[Head(k1)] < SegRank[Head(k2)]

RECURSIVE Sorted(_)
\* sorted(list(headers))
Sorted(S) ==
    IF S = {} THEN <<>>
    ELSE LET m == CHOOSE k \in S : \A j \in S \ {k} : KeyLess(k, j)
         IN  <<m>> \o Sorted(S \ {m})

\* The insertion orders a dict with this key set can have.
Orders(S) == {o \in [1..Cardinality(S) -> S] : \A k \in S : \E i \in DOMAIN o : o[i] = k}

RECURSIVE DictOf(_)
\* dict(items): a later item replaces an earlier one with the same key.
DictOf(items) ==
    IF items = <<>> THEN EmptyDict
    ELSE LET n == Len(items)
             last == items[n]
             rest == DictOf(SubSeq(items, 1, n - 1))
         IN  [k \in DOMAIN rest \cup {last[1]} |->
                 IF k = last[1] THEN last[2] ELSE rest[k]]

(***************************************************************************)
(* Reducer: _extract_ref and _clean_object                                 *)
(***************************************************************************)
Key(s) == <<s>>

\* _extract_ref(obj)
extract_ref(obj) ==
    IF obj.t = "null" THEN Null
    ELSE IF IsDict(obj)
    THEN IF Key("slug") \in DOMAIN obj.m THEN obj.m[Key("slug")]
         ELSE IF Key("name") \in DOMAIN obj.m THEN obj.m[Key("name")]
         ELSE IF Key("id") \in DOMAIN obj.m THEN obj.m[Key("id")]
         ELSE Null
    ELSE obj

remove_fields ==
    {Key("id"), Key("url"), Key("display"), Key("display_url"), Key("created"),
     Key("last_updated"), Key("custom_fields")}

\* tag.get("slug", tag.get("name", "")) for a dict, str(tag) otherwise.
TagName(tag) ==
    IF IsDict(tag)
    THEN IF Key("slug") \in DOMAIN tag.m THEN tag.m[Key("slug")]
         ELSE IF Key("name") \in DOMAIN tag.m THEN tag.m[Key("name")]
         ELSE Str("")
    ELSE PyStr(tag)

RECURSIVE JoinStrs(_)
JoinStrs(names) ==
    IF Len(names) = 0 THEN ""
    ELSE IF Len(names) = 1 THEN names[1].s
    ELSE names[1].s \o "," \o JoinStrs(Tail(names))

\* ",".join(filter(None, tag_names)): raises TypeError when a name that is
\* kept is no str.
JoinTags(tag_names) ==
    LET kept == SelectSeq(tag_names, Truthy)
    IN  IF \E i \in DOMAIN kept : kept[i].t # "str" THEN Raise
        ELSE Str(JoinStrs(kept))

RECURSIVE ListRefs(_)
\* refs of lines 246-253: the reference of every dict item whose reference is
\* truthy, and every other item as it is.
ListRefs(value) ==
    IF value = <<>> THEN <<>>
    ELSE LET item == Head(value)
         IN  IF IsDict(item)
             THEN IF Truthy(extract_ref(item))
                  THEN <<extract_ref(item)>> \o ListRefs(Tail(value))
                  ELSE ListRefs(Tail(value))
             ELSE <<item>> \o ListRefs(Tail(value))

\* cleaned[key] for a kept key (lines 213-256), or Raise.
CleanField(key, value) ==
    IF key = Key("tags")
    THEN IF IsList(value)
         THEN JoinTags([i \in DOMAIN value.q |-> TagName(value.q[i])])
         ELSE value
    ELSE IF IsDict(value)
    THEN IF extract_ref(value).t # "null"
         THEN extract_ref(value)
         ELSE Map([k \in {j \in DOMAIN value.m :
                             j \notin remove_fields /\ ~IsDict(value.m[j])
                                 /\ ~IsList(value.m[j])} |-> value.m[k]])
    ELSE IF IsList(value)
    THEN IF Len(value.q) > 0 /\ ~IsDict(value.q[1])
         THEN value
         ELSE LET refs == ListRefs(value.q)
              IN  IF Len(refs) # 1 THEN List(refs) ELSE refs[1]
    ELSE value

\* _clean_object(obj, depth): the cleaned object, or Raise.
clean_object(obj, depth) ==
    IF depth > 3 \/ ~IsDict(obj) THEN obj
    ELSE LET kept == DOMAIN obj.m \ remove_fields
         IN  IF \E k \in kept : CleanField(k, obj.m[k]) = Raise THEN Raise
             ELSE Map([k \in kept |-> CleanField(k, obj.m[k])])

\* A mapping that holds a mapping.
DeepMap == Map(Key("x") :> Map(Key("x") :> Num(1)))

RawScalars == {Null, Str(""), Str("a")} \cup {Num(n) : n \in 0..MaxNum}
RefKeySets ==
    {{}, {Key("slug")}, {Key("name")}, {Key("id")}, {Key("x")},
     {Key("slug"), Key("name")}, {Key("name"), Key("id")}, {Key("x"), Key("id")}}
RefMaps == {Map(m) : m \in UNION {[D -> RawScalars] : D \in RefKeySets}}
StructuredMaps ==
    {Map(Key("slug") :> DeepMap),
     Map(Key("x") :> DeepMap @@ Key("url") :> Str("a")),
     Map(Key("x") :> List(<<Num(1)>>) @@ Key("c") :> Str("a")),
     DeepMap}
ListItems ==
    {Map(Key("slug") :> Str("a")), Map(Key("slug") :> Str("")),
     Map(Key("slug") :> Null @@ Key("name") :> Str("b")),
     Map(Key("name") :> Str("b")), Map(Key("id") :> Num(0)), Map(Key("id") :> Num(1)),
     Map(Key("x") :> Str("a")), Map(Key("slug") :> DeepMap), Str("c"), Num(1)}
RawLists == {List(q) : q \in SeqsUpTo(ListItems, MaxListLen)}
RawValues == RawScalars \cup RefMaps \cup StructuredMaps \cup RawLists
RawRest ==
    {EmptyDict, Key("name") :> Str("n"),
     Key("id") :> Num(1) @@ Key("url") :> Str("u") @@ Key("display") :> Str("d")
        @@ Key("created") :> Str("t") @@ Key("name") :> Str("n")}
RawObjects ==
    {Map((k :> v) @@ rest) :
        k \in {Key("tags"), Key("site"), Key("custom_fields")}, v \in RawValues,
        rest \in RawRest}

NoResult == [endpoint |-> "", count |-> 0, data |-> <<>>]

CleanInit ==
    /\ k_pc = "start"
    /\ k_results \in {<<>>, <<Str("a")>>} \cup {<<obj>> : obj \in RawObjects}
          \cup {<<Map(Key("name") :> Str("n")), obj>> :
                   obj \in {o \in RawObjects : DOMAIN o.m = {Key("tags")}}}
    /\ k_idx = 0
    /\ k_cleaned = <<>>
    /\ k_result = NoResult

CleanIdle ==
    /\ k_pc = "off"
    /\ k_results = <<>>
    /\ k_idx = 0
    /\ k_cleaned = <<>>
    /\ k_result = NoResult

\* export_model: "No data found"; return {}.
ExportModelNoData ==
    /\ k_pc = "start"
    /\ k_results = <<>>
    /\ k_pc' = "returned"
    /\ UNCHANGED <<k_results, k_idx, k_cleaned, k_result, codecVars, importVars, exportVars,
                   cacheVars>>

ExportModelBegin ==
    /\ k_pc = "start"
    /\ k_results # <<>>
    /\ k_pc' = "clean"
    /\ UNCHANGED <<k_results, k_idx, k_cleaned, k_result, codecVars, importVars, exportVars,
                   cacheVars>>

\* One turn of the loop of lines 273-275.
CleanItem ==
    /\ k_pc = "clean"
    /\ k_idx < Len(k_results)
    /\ clean_object(k_results[k_idx + 1], 0) # Raise
    /\ k_cleaned' = Append(k_cleaned, clean_object(k_results[k_idx + 1], 0))
    /\ k_idx' = k_idx + 1
    /\ UNCHANGED <<k_pc, k_results, k_result, codecVars, importVars, exportVars,
                   cacheVars>>

\* _clean_object raises: nothing catches it.
CleanRaise ==
    /\ k_pc = "clean"
    /\ k_idx < Len(k_results)
    /\ clean_object(k_results[k_idx + 1], 0) = Raise
    /\ k_pc' = "crashed"
    /\ UNCHANGED <<k_results, k_idx, k_cleaned, k_result, codecVars, importVars, exportVars,
                   cacheVars>>

ExportModelReturn ==
    /\ k_pc = "clean"
    /\ k_idx = Len(k_results)
    /\ k_result' = [endpoint |-> "app/model", count |-> Len(k_cleaned), data |-> k_cleaned]
    /\ k_pc' = "returned"
    /\ UNCHANGED <<k_results, k_idx, k_cleaned, codecVars, importVars, exportVars,
                   cacheVars>>

CleanNext ==
    ExportModelNoData \/ ExportModelBegin \/ CleanItem \/ CleanRaise \/ ExportModelReturn

(***************************************************************************)
(* Tabular codec                                                           *)
(***************************************************************************)
\* The items one key of d contributes: its value's items under "key.sub_k"
\* for a dict (one level only), the JSON text of a list, else the value.
FlattenItems(k, v) ==
    IF IsDict(v)
    THEN LET subs == Sorted(DOMAIN v.m)
         IN  [i \in 1..Len(subs) |-> <<k \o subs[i], v.m[subs[i]]>>]
    ELSE IF IsList(v) THEN << <<k, JsonDumps(v)>> >>
    ELSE << <<k, v>> >>

RECURSIVE FlattenAll(_, _)
FlattenAll(d, ord) ==
    IF ord = <<>> THEN <<>>
    ELSE FlattenItems(Head(ord), d[Head(ord)]) \o FlattenAll(d, Tail(ord))

\* _flatten_dict(d) of a dict d whose keys were inserted in the order ord.
flatten_dict(d, ord) == DictOf(FlattenAll(d, ord))

\* CsvCell without the "v is None" case: None is written as str(None).
CsvCell_NoneAsText(v) ==
    IF IsList(v) \/ IsDict(v) THEN JsonDumps(v) ELSE PyStr(v)

\* The cell _save_csv writes for a value of a flattened record.
CsvCell(v) ==
    IF v.t = "null" THEN Str("")
    ELSE IF IsList(v) \/ IsDict(v) THEN JsonDumps(v)
    ELSE PyStr(v)

RECURSIVE HeadersOf(_)
HeadersOf(flat_data) ==
    IF flat_data = <<>> THEN {}
    ELSE DOMAIN Head(flat_data) \cup HeadersOf(Tail(flat_data))

\* The file _save_csv writes for the flattened records: the sorted union of
\* their keys as the header, and per record one cell per header ("" where the
\* record has no such key: DictWriter's restval).
CsvFile(flat_data) ==
    LET headers == Sorted(HeadersOf(flat_data))
    IN  [headers |-> headers,
         rows |-> [i \in 1..Len(flat_data) |->
                     [j \in 1..Len(headers) |->
                         IF headers[j] \in DOMAIN flat_data[i]
                         THEN CsvCell(flat_data[i][headers[j]])
                         ELSE Str("")]]]

\* open(csv_path, "r") reads with universal newlines: a "\r" inside a cell
\* comes back as "\n" ("<CR>" and "<LF>" stand for the two characters).
UniversalNewlines(cell) == IF cell = Str("x<CR>y") THEN Str("x<LF>y") ELSE cell

\* csv.DictReader: each row as its (header, cell) pairs in header order.  A file
\* whose header line is empty yields no rows: its lines are all blank, and
\* DictReader skips blank lines.
ReadRows(file) ==
    IF file.headers = <<>> THEN <<>>
    ELSE [i \in 1..Len(file.rows) |->
             [j \in 1..Len(file.headers) |->
                 <<file.headers[j], UniversalNewlines(file.rows[i][j])>>]]

RECURSIVE AssignPath(_, _, _)
\* current = data; for part in parts[:-1]: (create and) enter current[part];
\* current[parts[-1]] = value.  Entering or assigning into a value that is no
\* dict raises TypeError.
AssignPath(m, parts, value) ==
    LET p == <<Head(parts)>>
    IN  IF Len(parts) = 1
        THEN Map([k \in DOMAIN m \cup {p} |-> IF k = p THEN value ELSE m[k]])
        ELSE LET child == IF p \in DOMAIN m THEN m[p] ELSE Map(EmptyDict)
             IN  IF ~IsDict(child) THEN Raise
                 ELSE LET sub == AssignPath(child.m, Tail(parts), value)
                      IN  IF sub = Raise THEN Raise
                          ELSE Map([k \in DOMAIN m \cup {p} |->
                                       IF k = p THEN sub ELSE m[k]])

\* One (key, value) of a row applied to data (import_from_csv's inner loop body).
DecodeCell(data, key, value) ==
    IF data = Raise THEN Raise
    ELSE IF value = Str("") \/ value.t = "null" THEN data
    ELSE IF Len(key) > 1 THEN AssignPath(data.m, key, value)
    ELSE LET v == IF StartsWithBracket(value) THEN JsonLoadsOrLiteral(value)
                  ELSE value
         IN  Map([k \in DOMAIN data.m \cup {key} |-> IF k = key THEN v ELSE data.m[k]])

RECURSIVE DecodeFrom(_, _)
DecodeFrom(data, cells) ==
    IF cells = <<>> THEN data
    ELSE DecodeFrom(DecodeCell(data, Head(cells)[1], Head(cells)[2]), Tail(cells))

\* The data import_from_csv builds from one row, or Raise.
Unflatten(row) == DecodeFrom(Map(EmptyDict), row)

(***************************************************************************)
(* The import driver                                                       *)
(***************************************************************************)
\* The head of the Resource Catalog (NetBoxExporter.MODELS_ORDERED).
MODELS_ORDERED ==
    << <<"tenancy", "tenant-groups">>, <<"tenancy", "tenants">>, <<"circuits", "providers">> >>

\* f"{app}/{model}.csv", kept as the pair it is made of.
CsvPath(app_model) == app_model
\* file_path.replace(".csv", "")
EndpointOf(file_path) == file_path

CatalogFiles == [i \in DOMAIN MODELS_ORDERED |-> CsvPath(MODELS_ORDERED[i])]

\* The header of the files of the model, and the rows they may hold.
ImportHeaders == << <<"id">>, <<"a">>, <<"a", "b">> >>
IdOnlyRow   == <<Str("7"), Str(""), Str("")>>
PlainRow    == <<Str(""), Str("x"), Str("")>>
NestedRow   == <<Str("7"), Str(""), Str("y")>>
EmptyRow    == <<Str(""), Str(""), Str("")>>
\* "a" and "a.b" both filled: the decoding enters the string data["a"].
ClashRow    == <<Str(""), Str("x"), Str("y")>>
ImportRows  == {IdOnlyRow, PlainRow, NestedRow, EmptyRow, ClashRow}

RichFiles   == {[headers |-> ImportHeaders, rows |-> r] : r \in SeqsUpTo(ImportRows, MaxRows)}
SimpleFiles == {[headers |-> ImportHeaders, rows |-> r] : r \in {<<>>, <<PlainRow>>, <<IdOnlyRow, PlainRow>>}}

\* The export directories of the model: one file with any rows, or any files
\* of the catalog with simple rows.
ExportDirs ==
    UNION {[D -> RichFiles] : D \in {{CatalogFiles[1]}}}
        \cup UNION {[D -> SimpleFiles] : D \in SUBSET {CatalogFiles[i] : i \in DOMAIN CatalogFiles}}

\* os.walk: the files of one directory come together, directories and the
\* files inside each in any order.
WalkOrders(S) ==
    {o \in Orders(S) :
        \A i, j, k \in DOMAIN o :
            (i < j /\ j < k /\ o[i][1] = o[k][1]) => o[j][1] = o[i][1]}

\* HTTP status codes a POST may answer with.
StatusCodes == {200, 201, 400}
\* response.text of a failed POST: short, or longer than 200 characters.
ResponseTexts == {"bad request", "<long text>"}
\* response.text[:200] if len(response.text) > 200 else response.text
ErrMsg(text) == IF text = "<long text>" THEN "<first 200 of long text>" ELSE text

NoRet == <<>>

ImportInit ==
    /\ i_pc = "start"
    /\ has_manifest \in BOOLEAN
    /\ dir_files \in ExportDirs
    /\ files_to_import = <<>>
    /\ f_idx = 1
    /\ rows = <<>>
    /\ r_idx = 0
    /\ success = 0
    /\ errors = <<>>
    /\ posts = <<>>
    /\ ret = NoRet
    /\ error_logs = <<>>
    /\ total_success = 0
    /\ total_errors = 0

ImportIdle ==
    /\ i_pc = "off"
    /\ has_manifest = FALSE
    /\ dir_files = <<>>
    /\ files_to_import = <<>>
    /\ f_idx = 1
    /\ rows = <<>>
    /\ r_idx = 0
    /\ success = 0
    /\ errors = <<>>
    /\ posts = <<>>
    /\ ret = NoRet
    /\ error_logs = <<>>
    /\ total_success = 0
    /\ total_errors = 0

\* import_all, lines 482-495: the manifest's "files" (as export_all writes
\* them), or else the .csv files os.walk finds.
ListedFiles ==
    IF has_manifest THEN {CatalogFiles} ELSE WalkOrders(DOMAIN dir_files)

\* import_all: files found, enter the loop.
ImportAllList ==
    /\ i_pc = "start"
    /\ \E listed \in ListedFiles :
          /\ listed # <<>>
          /\ files_to_import' = listed
    /\ i_pc' = "files"
    /\ UNCHANGED <<has_manifest, dir_files, f_idx, rows, r_idx, success, errors, posts,
                   ret, error_logs, total_success, total_errors, codecVars, cleanVars, exportVars,
                   cacheVars>>

\* import_all: "No CSV files found to import".
ImportAllNoFiles ==
    /\ i_pc = "start"
    /\ <<>> \in ListedFiles
    /\ i_pc' = "done"
    /\ UNCHANGED <<has_manifest, dir_files, files_to_import, f_idx, rows, r_idx, success,
                   errors, posts, ret, error_logs, total_success, total_errors, codecVars, cleanVars, exportVars,
                   cacheVars>>

\* import_all: a listed file that does not exist is skipped with a warning.
ImportFileMissing ==
    /\ i_pc = "files"
    /\ f_idx <= Len(files_to_import)
    /\ files_to_import[f_idx] \notin DOMAIN dir_files
    /\ f_idx' = f_idx + 1
    /\ UNCHANGED <<i_pc, has_manifest, dir_files, files_to_import, rows, r_idx, success,
                   errors, posts, ret, error_logs, total_success, total_errors, codecVars, cleanVars, exportVars,
                   cacheVars>>

\* import_from_csv: the file has no rows; return 0, [].
ImportCsvNoRows ==
    /\ i_pc = "files"
    /\ f_idx <= Len(files_to_import)
    /\ files_to_import[f_idx] \in DOMAIN dir_files
    /\ ReadRows(dir_files[files_to_import[f_idx]]) = <<>>
    /\ ret' = Append(ret, [file |-> files_to_import[f_idx], success |-> 0, errors |-> <<>>])
    /\ f_idx' = f_idx + 1
    /\ UNCHANGED <<i_pc, has_manifest, dir_files, files_to_import, rows, r_idx, success,
                   errors, posts, error_logs, total_success, total_errors, codecVars, cleanVars, exportVars,
                   cacheVars>>

\* import_from_csv: rows read, enter the row loop.
ImportCsvBegin ==
    /\ i_pc = "files"
    /\ f_idx <= Len(files_to_import)
    /\ files_to_import[f_idx] \in DOMAIN dir_files
    /\ ReadRows(dir_files[files_to_import[f_idx]]) # <<>>
    /\ rows' = ReadRows(dir_files[files_to_import[f_idx]])
    /\ r_idx' = 0
    /\ success' = 0
    /\ errors' = <<>>
    /\ i_pc' = "rows"
    /\ UNCHANGED <<has_manifest, dir_files, files_to_import, f_idx, posts, ret,
                   error_logs, total_success, total_errors, codecVars, cleanVars, exportVars,
                   cacheVars>>

\* The data of the row the loop is at.
RowData == Unflatten(rows[r_idx + 1])

\* SkipRow without the test for "id": any row of at most one field is skipped.
SkipRow_AnySingleField(data) == Cardinality(DOMAIN data.m) <= 1

\* len(data) <= 1 and "id" in data
SkipRow(data) == Cardinality(DOMAIN data.m) <= 1 /\ <<"id">> \in DOMAIN data.m

InRowLoop == i_pc = "rows" /\ r_idx < Len(rows)

\* The decoding of the row raises, outside any try: the call and import_all end.
ImportRowRaise ==
    /\ InRowLoop
    /\ RowData = Raise
    /\ i_pc' = "crashed"
    /\ UNCHANGED <<has_manifest, dir_files, files_to_import, f_idx, rows, r_idx, success,
                   errors, posts, ret, error_logs, total_success, total_errors, codecVars, cleanVars, exportVars,
                   cacheVars>>

\* "Skip if only ID present": continue.
ImportRowSkip ==
    /\ InRowLoop
    /\ RowData # Raise
    /\ SkipRow(RowData)
    /\ r_idx' = r_idx + 1
    /\ UNCHANGED <<i_pc, has_manifest, dir_files, files_to_import, f_idx, rows, success,
                   errors, posts, ret, error_logs, total_success, total_errors, codecVars, cleanVars, exportVars,
                   cacheVars>>

PostOf(result) ==
    [endpoint |-> EndpointOf(files_to_import[f_idx]), row |-> r_idx,
     data |-> RowData, result |-> result]

\* The POST answers 200 or 201.
ImportRowCreated ==
    /\ InRowLoop
    /\ RowData # Raise
    /\ ~SkipRow(RowData)
    /\ \E status \in StatusCodes :
          /\ status \in {201, 200}
          /\ posts' = Append(posts, PostOf("created"))
          /\ success' = success + 1
    /\ r_idx' = r_idx + 1
    /\ UNCHANGED <<i_pc, has_manifest, dir_files, files_to_import, f_idx, rows,
                   errors, ret, error_logs, total_success, total_errors, codecVars, cleanVars, exportVars,
                   cacheVars>>

\* The POST answers another status.
ImportRowRejected ==
    /\ InRowLoop
    /\ RowData # Raise
    /\ ~SkipRow(RowData)
    /\ \E status \in StatusCodes, text \in ResponseTexts :
          /\ status \notin {201, 200}
          /\ posts' = Append(posts, PostOf("rejected"))
          /\ errors' = Append(errors, [row |-> r_idx, data |-> RowData,
                                       error |-> ErrMsg(text), status |-> status])
    /\ r_idx' = r_idx + 1
    /\ UNCHANGED <<i_pc, has_manifest, dir_files, files_to_import, f_idx, rows,
                   success, ret, error_logs, total_success, total_errors, codecVars, cleanVars, exportVars,
                   cacheVars>>

\* session.post raises.
ImportRowException ==
    /\ InRowLoop
    /\ RowData # Raise
    /\ ~SkipRow(RowData)
    /\ posts' = Append(posts, PostOf("exception"))
    /\ errors' = Append(errors, [row |-> r_idx, error |-> "str(e)"])
    /\ r_idx' = r_idx + 1
    /\ UNCHANGED <<i_pc, has_manifest, dir_files, files_to_import, f_idx, rows,
                   success, ret, error_logs, total_success, total_errors, codecVars, cleanVars, exportVars,
                   cacheVars>>

\* After the last row: write the error log if there are errors, return
\* success, errors; import_all adds them to its totals.
ImportCsvReturn ==
    /\ i_pc = "rows"
    /\ r_idx = Len(rows)
    /\ error_logs' =
          IF errors # <<>>
          THEN [p \in DOMAIN error_logs \cup {files_to_import[f_idx]} |->
                   IF p = files_to_import[f_idx] THEN errors ELSE error_logs[p]]
          ELSE error_logs
    /\ ret' = Append(ret, [file |-> files_to_import[f_idx], success |-> success,
                           errors |-> errors])
    /\ total_success' = total_success + success
    /\ total_errors' = total_errors + Len(errors)
    /\ f_idx' = f_idx + 1
    /\ i_pc' = "files"
    /\ UNCHANGED <<has_manifest, dir_files, files_to_import, rows, r_idx, success,
                   errors, posts, codecVars, cleanVars, exportVars,
                   cacheVars>>

\* import_all: every listed file handled; "Import complete!".
ImportAllDone ==
    /\ i_pc = "files"
    /\ f_idx > Len(files_to_import)
    /\ i_pc' = "done"
    /\ UNCHANGED <<has_manifest, dir_files, files_to_import, f_idx, rows, r_idx, success,
                   errors, posts, ret, error_logs, total_success, total_errors, codecVars, cleanVars, exportVars,
                   cacheVars>>

ImportNext ==
    \/ ImportAllList \/ ImportAllNoFiles \/ ImportFileMissing
    \/ ImportCsvNoRows \/ ImportCsvBegin
    \/ ImportRowRaise \/ ImportRowSkip
    \/ ImportRowCreated \/ ImportRowRejected \/ ImportRowException
    \/ ImportCsvReturn \/ ImportAllDone

(***************************************************************************)
(* The codec, driven: _save_csv of a result, then the decoding of its rows *)
(***************************************************************************)
NoFile == [headers |-> <<>>, rows |-> <<>>]

CodecScalars ==
    {Null, Bool(TRUE), Str(""), Str("a"), Str("[x"), Str("x<CR>y"),
     JsonText(List(<<Num(1)>>))}
        \cup {Num(n) : n \in 0..MaxNum}
NestedScalars == {Null, Str(""), Str("a"), Num(0), JsonText(List(<<Num(1)>>))}
SubKeys == {<<"b">>, <<"c">>}
NestedMaps == {Map(m) : m \in UNION {[D -> NestedScalars] : D \in SUBSET SubKeys}}
CodecValues == CodecScalars \cup NestedMaps \cup {List(<<>>), List(<<Num(1), Str("a")>>)}
\* A raw key that itself contains a ".".
DottedKey == <<"a", "b">>
CodecObjects ==
    UNION {[D \cup E -> CodecValues \cup {Str("c")}] :
              D \in SUBSET {<<"a">>, <<"b">>}, E \in SUBSET {DottedKey}}
CodecData ==
    {obj \in CodecObjects :
        DottedKey \in DOMAIN obj => obj[DottedKey] \in {Str("a"), Str("c")}}

CodecInit ==
    /\ c_pc = "start"
    /\ c_data \in {<<>>} \cup {<<x>> : x \in CodecData}
                  \cup {<<x, (<<"c">> :> Str("a"))>> : x \in {y \in CodecData : DOMAIN y = {<<"a">>}}}
    /\ c_file = NoFile
    /\ c_out = <<>>

CodecIdle ==
    /\ c_pc = "off"
    /\ c_data = <<>>
    /\ c_file = NoFile
    /\ c_out = <<>>

\* _save_csv: nothing is written for an empty result.
SaveCsvEmpty ==
    /\ c_pc = "start"
    /\ c_data = <<>>
    /\ c_pc' = "nofile"
    /\ UNCHANGED <<c_data, c_file, c_out, importVars, cleanVars, exportVars,
                   cacheVars>>

\* _save_csv: flatten every object and write the file.
SaveCsv ==
    /\ c_pc = "start"
    /\ c_data # <<>>
    /\ \E ords \in [DOMAIN c_data -> UNION {Orders(DOMAIN c_data[i]) : i \in DOMAIN c_data}] :
          /\ \A i \in DOMAIN c_data : ords[i] \in Orders(DOMAIN c_data[i])
          /\ c_file' = CsvFile([i \in DOMAIN c_data |-> flatten_dict(c_data[i], ords[i])])
    /\ c_pc' = "saved"
    /\ UNCHANGED <<c_data, c_out, importVars, cleanVars, exportVars,
                   cacheVars>>

\* import_from_csv: read the rows back and decode each.
ReadCsv ==
    /\ c_pc = "saved"
    /\ c_out' = [i \in DOMAIN ReadRows(c_file) |-> Unflatten(ReadRows(c_file)[i])]
    /\ c_pc' = "read"
    /\ UNCHANGED <<c_data, c_file, importVars, cleanVars, exportVars,
                   cacheVars>>

CodecNext == SaveCsvEmpty \/ SaveCsv \/ ReadCsv

(***************************************************************************)
(* The export driver and the paginated fetch                               *)
(***************************************************************************)
\* The answers the remote service gives to one GET: a page of results that
\* has a "next" or not, or a body without "results".
PageKinds ==
    {[kind |-> "page", n |-> n, next |-> b] : n \in {0, 1}, b \in BOOLEAN}
        \cup {[kind |-> "object"]}
LastEmptyPage == [kind |-> "page", n |-> 0, next |-> FALSE]

\* The services of the model: any pages for the first descriptor, a few for
\* the others.
PlainServers ==
    {<<>>, <<[kind |-> "page", n |-> 1, next |-> FALSE]>>,
     <<[kind |-> "page", n |-> 1, next |-> TRUE], [kind |-> "page", n |-> 1, next |-> FALSE]>>}
Servers ==
    {sv \in [DOMAIN MODELS_ORDERED -> SeqsUpTo(PageKinds, MaxPages)] :
        \A d \in DOMAIN MODELS_ORDERED : d > 1 => sv[d] \in PlainServers}

\* What the service answers for descriptor d at the given offset: the pages
\* are limit apart; past the last one the service answers an empty last page.
PageAt(d, off) ==
    LET p == (off \div PageLimit) + 1
    IN  IF p \in DOMAIN server[d] THEN server[d][p] ELSE LastEmptyPage

\* data["results"] of the page at the given offset: its objects, which carry
\* the page they came from.
ResultsOf(d, off) ==
    [j \in 1..PageAt(d, off).n |->
        Map(Key("id") :> Num(off \div PageLimit) @@ Key("name") :> Str("n"))]
\* The body of an answer without "results".
ObjectOf(d) == Map(Key("id") :> Num(0) @@ Key("detail") :> Str("n"))

NotWritten == [written |-> FALSE]

ExportInit ==
    /\ e_pc = "loop"
    /\ m_idx = 1
    /\ offset = 0
    /\ all_results = <<>>
    /\ e_results = <<>>
    /\ fetched = <<>>
    /\ full_export = <<>>
    /\ total_objects = 0
    /\ csv_files = <<>>
    /\ json_file = NotWritten
    /\ manifest = NotWritten
    /\ server \in Servers
    /\ down \in {{}} \cup {{d} : d \in DOMAIN MODELS_ORDERED}

ExportIdle ==
    /\ e_pc = "off"
    /\ m_idx = 1
    /\ offset = 0
    /\ all_results = <<>>
    /\ e_results = <<>>
    /\ fetched = <<>>
    /\ full_export = <<>>
    /\ total_objects = 0
    /\ csv_files = <<>>
    /\ json_file = NotWritten
    /\ manifest = NotWritten
    /\ server = <<>>
    /\ down = {}

\* export_all's loop calls export_model, which calls _get (lines 117-121).
ExportModelCall ==
    /\ e_pc = "loop"
    /\ m_idx <= Len(MODELS_ORDERED)
    /\ all_results' = <<>>
    /\ offset' = 0
    /\ e_pc' = "request"
    /\ UNCHANGED <<m_idx, e_results, fetched, full_export, total_objects, csv_files,
                   json_file, manifest, server, down, codecVars, importVars, cleanVars,
                   cacheVars>>

\* _get: the GET answers a page that has a "next".
GetPageMore ==
    /\ e_pc = "request"
    /\ m_idx \notin down
    /\ PageAt(m_idx, offset).kind = "page"
    /\ PageAt(m_idx, offset).next
    /\ all_results' = all_results \o ResultsOf(m_idx, offset)
    /\ offset' = offset + PageLimit
    /\ UNCHANGED <<e_pc, m_idx, e_results, fetched, full_export, total_objects, csv_files,
                   json_file, manifest, server, down, codecVars, importVars, cleanVars,
                   cacheVars>>

\* _get: the GET answers a page without "next": break, return all_results.
GetPageLast ==
    /\ e_pc = "request"
    /\ m_idx \notin down
    /\ PageAt(m_idx, offset).kind = "page"
    /\ ~PageAt(m_idx, offset).next
    /\ all_results' = all_results \o ResultsOf(m_idx, offset)
    /\ e_results' = all_results \o ResultsOf(m_idx, offset)
    /\ fetched' = Append(fetched, all_results \o ResultsOf(m_idx, offset))
    /\ e_pc' = "fetched"
    /\ UNCHANGED <<m_idx, offset, full_export, total_objects, csv_files,
                   json_file, manifest, server, down, codecVars, importVars, cleanVars,
                   cacheVars>>

\* _get: the answer has no "results": return [data].
GetObject ==
    /\ e_pc = "request"
    /\ m_idx \notin down
    /\ PageAt(m_idx, offset).kind = "object"
    /\ e_results' = <<ObjectOf(m_idx)>>
    /\ fetched' = Append(fetched, <<ObjectOf(m_idx)>>)
    /\ e_pc' = "fetched"
    /\ UNCHANGED <<m_idx, offset, all_results, full_export, total_objects, csv_files,
                   json_file, manifest, server, down, codecVars, importVars, cleanVars,
                   cacheVars>>

\* GetFail moving on to the next page, as after a page that was read.
GetFail_SkipsPage ==
    /\ e_pc = "request"
    /\ offset' = offset + PageLimit
    /\ e_pc' = "backoff"
    /\ UNCHANGED <<m_idx, all_results, e_results, fetched, full_export,
                   total_objects, csv_files, json_file, manifest, server, down,
                   codecVars, importVars, cleanVars,
                   cacheVars>>

\* _get: the GET raises a RequestException; print, sleep 2 s.
GetFail ==
    /\ e_pc = "request"
    /\ e_pc' = "backoff"
    /\ UNCHANGED <<m_idx, offset, all_results, e_results, fetched, full_export,
                   total_objects, csv_files, json_file, manifest, server, down,
                   codecVars, importVars, cleanVars,
                   cacheVars>>

\* GetRetry giving the fetch up: the descriptor gets no results.
GetRetry_GivesUp ==
    /\ e_pc = "backoff"
    /\ e_results' = <<>>
    /\ fetched' = Append(fetched, <<>>)
    /\ e_pc' = "fetched"
    /\ UNCHANGED <<m_idx, offset, all_results, full_export, total_objects, csv_files,
                   json_file, manifest, server, down, codecVars, importVars, cleanVars,
                   cacheVars>>

\* _get: continue, the loop asks for the same page again.
GetRetry ==
    /\ e_pc = "backoff"
    /\ e_pc' = "request"
    /\ UNCHANGED <<m_idx, offset, all_results, e_results, fetched, full_export,
                   total_objects, csv_files, json_file, manifest, server, down,
                   codecVars, importVars, cleanVars,
                   cacheVars>>

\* export_model: "No data found", return {}; export_all skips the descriptor.
ExportModelEmpty ==
    /\ e_pc = "fetched"
    /\ e_results = <<>>
    /\ m_idx' = m_idx + 1
    /\ e_pc' = "loop"
    /\ UNCHANGED <<offset, all_results, e_results, fetched, full_export, total_objects,
                   csv_files, json_file, manifest, server, down,
                   codecVars, importVars, cleanVars,
                   cacheVars>>

\* The result export_model returns for results (none of the objects of this
\* service makes _clean_object raise).
ResultOf(d, results) ==
    [endpoint |-> MODELS_ORDERED[d], count |-> Len(results),
     data |-> [i \in DOMAIN results |-> clean_object(results[i], 0)]]

\* _save_csv(result): the file written, each object flattened.
SavedCsv(result) ==
    CsvFile([i \in DOMAIN result.data |->
                flatten_dict(result.data[i].m, Sorted(DOMAIN result.data[i].m))])

\* export_model returns a result; export_all records it, adds its count and
\* saves its CSV file.
ExportModelSave ==
    /\ e_pc = "fetched"
    /\ e_results # <<>>
    /\ \E result \in {ResultOf(m_idx, e_results)} :
       \E file \in {SavedCsv(result)} :
          LET path == CsvPath(MODELS_ORDERED[m_idx])
          IN  /\ full_export' = [q \in DOMAIN full_export \cup {path} |->
                                    IF q = path THEN result ELSE full_export[q]]
              /\ total_objects' = total_objects + result.count
              /\ csv_files' = [q \in DOMAIN csv_files \cup {path} |->
                                  IF q = path THEN file ELSE csv_files[q]]
    /\ m_idx' = m_idx + 1
    /\ e_pc' = "loop"
    /\ UNCHANGED <<offset, all_results, e_results, fetched, json_file, manifest, server,
                   down, codecVars, importVars, cleanVars,
                   cacheVars>>

\* export_all after the loop: full_export.json and manifest.json.
ExportWriteManifest ==
    /\ e_pc = "loop"
    /\ m_idx > Len(MODELS_ORDERED)
    /\ json_file' = [written |-> TRUE, content |-> full_export]
    /\ manifest' = [written |-> TRUE, total_objects |-> total_objects,
                    files |-> [i \in DOMAIN MODELS_ORDERED |-> CsvPath(MODELS_ORDERED[i])]]
    /\ e_pc' = "Done"
    /\ UNCHANGED <<m_idx, offset, all_results, e_results, fetched, full_export,
                   total_objects, csv_files, server, down, codecVars, importVars, cleanVars,
                   cacheVars>>

GetAnswer == GetPageMore \/ GetPageLast \/ GetObject

ExportNext ==
    \/ ExportModelCall \/ GetPageMore \/ GetPageLast \/ GetObject \/ GetFail \/ GetRetry
    \/ ExportModelEmpty \/ ExportModelSave \/ ExportWriteManifest

(***************************************************************************)
(* Reference cache: _get_cached                                            *)
(***************************************************************************)
\* A url is the sequence of the pieces the code tells apart: the leading "/"
\* or the base URL, the "api/" prefix, the endpoint path, the trailing "/".
BaseUrl == "http://netbox/"
RefPaths == {"dcim/sites/1", "dcim/sites/2"}
AbsoluteRef(p) == <<BaseUrl, "api/", p, "/">>
RootedRef(p) == <<"/", "api/", p, "/">>
BareRef(p) == <<p>>
Refs == {AbsoluteRef(p) : p \in RefPaths} \cup {RootedRef(p) : p \in RefPaths}
            \cup {BareRef(p) : p \in RefPaths}

\* What the remote service may answer for a reference.
RefObjects == {Map(Key("id") :> Num(n)) : n \in 0..MaxNum}

\* Lines 158-161: the url the GET is sent to and the data is stored under.
FullUrl(url) ==
    IF Head(url) = "/" THEN <<BaseUrl>> \o Tail(url)
    ELSE IF Head(url) # BaseUrl THEN <<BaseUrl, "api/">> \o url \o <<"/">>
    ELSE url

\* self._cache = {} in __init__; no call made yet.
CacheInit ==
    /\ cache = <<>>
    /\ calls = 0
    /\ gets = 0
    /\ q_url = <<>>
    /\ q_ret = Null
    /\ resolved = <<>>

\* resolved after a call given url has returned data.
Resolved(url, data) ==
    IF url \in DOMAIN resolved THEN resolved
    ELSE [u \in DOMAIN resolved \cup {url} |-> IF u = url THEN data ELSE resolved[u]]

\* _get_cached: url in self._cache; return self._cache[url].
GetCachedHit ==
    /\ calls < MaxCalls
    /\ \E url \in Refs :
          /\ url \in DOMAIN cache
          /\ q_url' = url
          /\ q_ret' = cache[url]
          /\ resolved' = Resolved(url, cache[url])
    /\ calls' = calls + 1
    /\ UNCHANGED <<cache, gets, codecVars, importVars, cleanVars, exportVars>>

\* _get_cached: the GET is answered; the data is stored under the full URL.
GetCachedFetch ==
    /\ calls < MaxCalls
    /\ \E url \in Refs, data \in RefObjects :
          /\ url \notin DOMAIN cache
          /\ cache' = [u \in DOMAIN cache \cup {FullUrl(url)} |->
                          IF u = FullUrl(url) THEN data ELSE cache[u]]
          /\ q_url' = url
          /\ q_ret' = data
          /\ resolved' = Resolved(url, data)
    /\ gets' = gets + 1
    /\ calls' = calls + 1
    /\ UNCHANGED <<codecVars, importVars, cleanVars, exportVars>>

\* _get_cached: the GET, raise_for_status or json() raises; return None.
GetCachedFail ==
    /\ calls < MaxCalls
    /\ \E url \in Refs :
          /\ url \notin DOMAIN cache
          /\ q_url' = url
    /\ q_ret' = Null
    /\ gets' = gets + 1
    /\ calls' = calls + 1
    /\ UNCHANGED <<cache, resolved, codecVars, importVars, cleanVars, exportVars>>

CacheNext == GetCachedHit \/ GetCachedFetch \/ GetCachedFail

(***************************************************************************)
(* Specifications                                                          *)
(***************************************************************************)
\* import_all on one export directory.
InitImport == ImportInit /\ CodecIdle /\ CleanIdle /\ ExportIdle /\ CacheInit
SpecImport == InitImport /\ [][ImportNext]_vars

\* _save_csv of one result, then the decoding of the rows of its file.
InitCodec == CodecInit /\ ImportIdle /\ CleanIdle /\ ExportIdle /\ CacheInit
SpecCodec == InitCodec /\ [][CodecNext]_vars

\* export_model on what one fetch returned.
InitClean == CleanInit /\ CodecIdle /\ ImportIdle /\ ExportIdle /\ CacheInit
SpecClean == InitClean /\ [][CleanNext]_vars

\* export_all against one remote service.  The program is sequential and keeps
\* running; a GET to a descriptor that is not down is answered at some attempt.
InitExport == ExportInit /\ CodecIdle /\ ImportIdle /\ CleanIdle /\ CacheInit
\* The steps of export_all that wait for nothing: from the loop head into the
\* next descriptor or past the loop, from the 2 s sleep back to the GET, from a
\* returned fetch through the save to the loop head.
ExportAdvance ==
    \/ e_pc = "loop" /\ e_pc' \in {"request", "Done"}
    \/ e_pc = "backoff" /\ e_pc' = "request"
    \/ e_pc = "fetched" /\ e_pc' = "loop"

\* The process keeps running, and a GET that can be answered and is asked again
\* and again is answered at some attempt.
SpecExport ==
    InitExport /\ [][ExportNext]_vars /\ WF_e_pc(ExportAdvance) /\ SF_vars(GetAnswer)

\* _get_cached called with one reference after another, each answered or not.
InitCache == CacheInit /\ CodecIdle /\ ImportIdle /\ CleanIdle /\ ExportIdle
SpecCache == InitCache /\ [][CacheNext]_vars

(***************************************************************************)
(* C1: the order of the import                                             *)
(***************************************************************************)
\* The position of a file's resource type in the catalog.
CatalogPos(file_path) == CHOOSE i \in DOMAIN CatalogFiles : CatalogFiles[i] = file_path

\* C1 as claimed: whatever order the files were listed in, no row of a later
\* catalog entry is POSTed before a row of an earlier catalog entry.
C1_CatalogOrderAsClaimed ==
    \A i, j \in DOMAIN posts :
        i < j => CatalogPos(posts[i].endpoint) <= CatalogPos(posts[j].endpoint)

(***************************************************************************)
(* C2: a resource type without objects                                     *)
(***************************************************************************)
Range(q) == {q[i] : i \in DOMAIN q}

\* C2 as claimed: when the run is done, a resource type whose fetch returned
\* no objects has no CSV file and its path is not in the manifest's "files".
C2_EmptyTypeAsClaimed ==
    e_pc = "Done" =>
        /\ manifest.written /\ json_file.written
        /\ \A d \in DOMAIN fetched :
              fetched[d] = <<>> =>
                  /\ CsvPath(MODELS_ORDERED[d]) \notin DOMAIN csv_files
                  /\ CsvPath(MODELS_ORDERED[d]) \notin Range(manifest.files)

\* What of it the code does: no CSV file, and the run is not aborted.
C2_NoFileForEmptyType ==
    e_pc = "Done" =>
        /\ manifest.written /\ json_file.written
        /\ \A d \in DOMAIN fetched :
              fetched[d] = <<>> => CsvPath(MODELS_ORDERED[d]) \notin DOMAIN csv_files

(***************************************************************************)
(* C3: a descriptor whose every GET fails                                  *)
(***************************************************************************)
\* C3 as claimed: also when every attempt to fetch one descriptor fails, the
\* run gets past it and reaches Done.
C3_DegradedExportAsClaimed == (down # {}) => <>(e_pc = "Done")

\* C3, amended: a failed GET is caught and the same page asked for again; the
\* descriptor whose every GET fails is never given up: no result is recorded
\* for it, the loop never gets past it, nothing is written after the loop.
C3_RetriedWithoutEnd ==
    \A d \in down :
        /\ m_idx <= d
        /\ Len(fetched) < d
        /\ e_pc # "Done"
        /\ ~manifest.written /\ ~json_file.written
        /\ (m_idx = d /\ e_pc \in {"request", "backoff"}) => (offset = 0 /\ all_results = <<>>)

\* The run has exported a descriptor and is backing off from a failed GET to
\* the next one, whose every GET fails.
C3_Witness ==
    /\ m_idx \in down
    /\ m_idx > 1
    /\ Len(fetched) = m_idx - 1
    /\ e_pc = "backoff"

(***************************************************************************)
(* C6: the paginated fetch                                                 *)
(***************************************************************************)
RECURSIVE PagesBefore(_, _)
\* The results of the pages of d at offsets 0, limit, ... below off, in order.
PagesBefore(d, off) ==
    IF off <= 0 THEN <<>>
    ELSE PagesBefore(d, off - PageLimit) \o ResultsOf(d, off - PageLimit)

\* The offset of the first answer of d that is not a page with a "next".
LastOffset(d) ==
    PageLimit * (CHOOSE k \in 0..Len(server[d]) :
                    /\ ~(PageAt(d, k * PageLimit).kind = "page" /\ PageAt(d, k * PageLimit).next)
                    /\ \A j \in 0..(k - 1) :
                          PageAt(d, j * PageLimit).kind = "page" /\ PageAt(d, j * PageLimit).next)

InFetch == e_pc \in {"request", "backoff"}

\* During the fetch: what is accumulated is exactly the pages before offset.
C6_Accumulated ==
    InFetch =>
        /\ offset % PageLimit = 0
        /\ offset <= LastOffset(m_idx)
        /\ all_results = PagesBefore(m_idx, offset)

\* When the loop has ended: the pages up to and including the first one
\* without "next", each once, in order.
C6_Returned ==
    \A d \in DOMAIN fetched :
        PageAt(d, LastOffset(d)).kind = "page" =>
            fetched[d] = PagesBefore(d, LastOffset(d) + PageLimit)

\* C6: a failed GET leaves all_results and offset as they are and the same
\* page is asked for again; every page is appended once, and what is returned
\* is the pages at offsets 0, limit, ... up to the first without "next", in
\* order; if the GETs of a descriptor are answered at some attempt, its fetch
\* ends.
C6_PaginatedFetch ==
    /\ [](C6_Accumulated /\ C6_Returned)
    /\ [][e_pc' = "backoff" => (e_pc = "request" /\ offset' = offset /\ all_results' = all_results)]_vars
    /\ [][e_pc = "backoff" => (e_pc' = "request" /\ offset' = offset /\ all_results' = all_results
                                 /\ m_idx' = m_idx)]_vars
    /\ \A d \in DOMAIN MODELS_ORDERED :
          (m_idx = d /\ InFetch /\ d \notin down) ~> (Len(fetched) >= d)

\* A GET for the second page has failed with the first page accumulated.
C6_Witness ==
    /\ e_pc = "backoff"
    /\ offset = PageLimit
    /\ Len(all_results) = 1
    /\ PageAt(m_idx, offset).kind = "page"
    /\ PageAt(m_idx, offset).n = 1

(***************************************************************************)
(* C4: failing rows in import_from_csv                                     *)
(***************************************************************************)
\* The POSTs issued for one file, in order.
PostsOf(file_path) == SelectSeq(posts, LAMBDA e : e.endpoint = EndpointOf(file_path))

\* The zero-based indices of the rows of a file that are not skipped.
NonSkipped(rws) ==
    {i \in 0..(Len(rws) - 1) :
        Unflatten(rws[i + 1]) # Raise /\ ~SkipRow(Unflatten(rws[i + 1]))}

\* What a finished call must have returned, given the POSTs issued for its file.
ReturnMatchesPosts(r) ==
    LET P == PostsOf(r.file)
        failed == {a \in DOMAIN P : P[a].result # "created"}
    IN  /\ \A a, b \in DOMAIN P : a < b => P[a].row < P[b].row
        /\ {P[a].row : a \in DOMAIN P} = NonSkipped(ReadRows(dir_files[r.file]))
        /\ r.success = Cardinality(DOMAIN P \ failed)
        /\ Len(r.errors) = Cardinality(failed)
        /\ \A a, b \in DOMAIN r.errors : a < b => r.errors[a].row < r.errors[b].row
        /\ {r.errors[a].row : a \in DOMAIN r.errors} = {P[a].row : a \in failed}

\* C4 as claimed: for every sequence of rows and every outcome of each POST the
\* call goes through all its rows and returns; every non-skipped row was POSTed
\* exactly once, in order, the success count is the number of rows answered 200
\* or 201, and the errors hold one entry per failed row, with its index.
C4_FailingRowsAsClaimed ==
    /\ i_pc # "crashed"
    /\ \A k \in DOMAIN ret : ReturnMatchesPosts(ret[k])

\* The same for the calls that return, leaving out that every call returns.
C4_ReturnedCallsOnly ==
    \A k \in DOMAIN ret : ReturnMatchesPosts(ret[k])

(***************************************************************************)
(* C11: what a recorded failure carries                                    *)
(***************************************************************************)
\* Every failure recorded so far, with the file it was recorded for: by the
\* call in progress and by the calls that have returned.
RecordedErrors ==
    (IF i_pc = "rows"
     THEN {<<files_to_import[f_idx], errors[a]>> : a \in DOMAIN errors}
     ELSE {})
        \cup UNION {{<<ret[k].file, ret[k].errors[a]>> : a \in DOMAIN ret[k].errors} :
                       k \in DOMAIN ret}

\* The failed POST of the row a recorded failure names.
PostedFor(file_path, e) ==
    {q \in Range(PostsOf(file_path)) : q.row = e.row /\ q.result # "created"}

\* C11 as claimed: every recorded failure, of a rejected POST or of a POST that
\* raised, carries the row index, the submitted payload and the error detail,
\* and the status when a response was received.
C11_FailureEntriesAsClaimed ==
    \A fe \in RecordedErrors :
        LET e == fe[2]
        IN  /\ {"row", "data", "error"} \subseteq DOMAIN e
            /\ PostedFor(fe[1], e) # {}
            /\ \A q \in PostedFor(fe[1], e) :
                  /\ e.data = q.data
                  /\ q.result = "rejected" =>
                        ("status" \in DOMAIN e /\ e.status \notin {200, 201})

\* What of it the code does: every entry has the row index of a failed POST
\* and the error detail; the entry of a rejected POST also has the payload
\* and the status, the entry of a POST that raised has neither.
C11_RejectedEntriesComplete ==
    \A fe \in RecordedErrors :
        LET e == fe[2]
        IN  /\ {"row", "error"} \subseteq DOMAIN e
            /\ PostedFor(fe[1], e) # {}
            /\ \A q \in PostedFor(fe[1], e) :
                  IF q.result = "rejected"
                  THEN /\ DOMAIN e = {"row", "data", "error", "status"}
                       /\ e.data = q.data
                       /\ e.status \notin {200, 201}
                  ELSE DOMAIN e = {"row", "error"}

(***************************************************************************)
(* C5: rows with only an id                                                *)
(***************************************************************************)
OnlyId(data) == DOMAIN data.m = {<<"id">>}
HasOtherField(data) == \E k \in DOMAIN data.m : k # <<"id">>

\* C5: of the rows the loop has gone through, a row whose data is only "id" was
\* not POSTed and has no error entry, a row with a field other than "id" was
\* POSTed once, and success and errors count exactly the rows POSTed.
C5_IdOnlyRowsSkipped ==
    i_pc = "rows" =>
        LET P == PostsOf(files_to_import[f_idx])
            postsOfRow(i) == {a \in DOMAIN P : P[a].row = i}
        IN  /\ \A i \in 0..(r_idx - 1) :
                  LET data == Unflatten(rows[i + 1])
                  IN  /\ OnlyId(data) =>
                          /\ postsOfRow(i) = {}
                          /\ \A e \in DOMAIN errors : errors[e].row # i
                      /\ HasOtherField(data) => Cardinality(postsOfRow(i)) = 1
            /\ success + Len(errors) = Len(P)
            /\ Len(P) = Cardinality({i \in 0..(r_idx - 1) : ~OnlyId(Unflatten(rows[i + 1]))})

\* The loop has skipped a row that is only an id and POSTed the row after it.
C5_Witness ==
    /\ i_pc = "rows"
    /\ r_idx = 2
    /\ OnlyId(Unflatten(rows[1]))
    /\ HasOtherField(Unflatten(rows[2]))
    /\ Len(PostsOf(files_to_import[f_idx])) = 1
    /\ PostsOf(files_to_import[f_idx])[1].row = 1

(***************************************************************************)
(* C9: the shape of a reduced object                                       *)
(***************************************************************************)
IsPrimitive(v) == ~IsDict(v) /\ ~IsList(v)

\* C9 as claimed: in the output of _clean_object for any raw object, no
\* mapping-valued field holds a mapping or a sequence, and none of the
\* server-managed keys is left at the top level.
C9_ReducedShapeAsClaimed ==
    \A i \in DOMAIN k_cleaned :
        IsDict(k_results[i]) =>
            /\ \A k \in DOMAIN k_cleaned[i].m :
                  IsDict(k_cleaned[i].m[k]) =>
                      \A j \in DOMAIN k_cleaned[i].m[k].m :
                          IsPrimitive(k_cleaned[i].m[k].m[j])
            /\ DOMAIN k_cleaned[i].m \cap remove_fields = {}

\* The second half alone: no server-managed key is left at the top level.
C9_ManagedKeysRemoved ==
    \A i \in DOMAIN k_cleaned :
        IsDict(k_results[i]) => DOMAIN k_cleaned[i].m \cap remove_fields = {}

(***************************************************************************)
(* C10: the collapse of a sequence of references                           *)
(***************************************************************************)
RECURSIVE ClaimedRefs(_)
\* The references of the elements, leaving out only the elements that yield
\* no reference.
ClaimedRefs(q) ==
    IF q = <<>> THEN <<>>
    ELSE IF extract_ref(Head(q)).t # "null"
         THEN <<extract_ref(Head(q))>> \o ClaimedRefs(Tail(q))
         ELSE ClaimedRefs(Tail(q))

\* C10 as claimed: a field (other than "tags") whose value is a sequence of
\* mappings becomes the references of its elements, in order, without the
\* elements that yield none: the bare reference if there is exactly one, else
\* the sequence; an empty sequence and a sequence without mappings stay as
\* they are.
C10_CollapseAsClaimed ==
    \A i \in DOMAIN k_cleaned :
        IsDict(k_results[i]) =>
            \A k \in DOMAIN k_results[i].m \ (remove_fields \cup {Key("tags")}) :
                LET value == k_results[i].m[k]
                    out == k_cleaned[i].m[k]
                IN  IsList(value) =>
                        /\ (\A e \in DOMAIN value.q : ~IsDict(value.q[e])) => out = value
                        /\ (value.q # <<>> /\ \A e \in DOMAIN value.q : IsDict(value.q[e])) =>
                              out = IF Len(ClaimedRefs(value.q)) = 1
                                    THEN ClaimedRefs(value.q)[1]
                                    ELSE List(ClaimedRefs(value.q))

(***************************************************************************)
(* C7: the reference cache                                                 *)
(***************************************************************************)
\* C7 as claimed: a call given a url that an earlier call resolved returns the
\* object that call returned and issues no GET; a call that returns None
\* leaves the cache as it was.
C7_MemoizedAsClaimed ==
    [][calls' = calls + 1 =>
          /\ (q_url' \in DOMAIN resolved => (q_ret' = resolved[q_url'] /\ gets' = gets))
          /\ (q_ret' = Null => cache' = cache)]_vars

\* What of it the code does: a url that is already a full URL is not fetched
\* again once resolved, and a call that returns None leaves the cache as it was.
C7_FullUrlNotRefetched ==
    [][calls' = calls + 1 =>
          /\ ((q_url' \in DOMAIN resolved /\ FullUrl(q_url') = q_url') => gets' = gets)
          /\ (q_ret' = Null => cache' = cache)]_vars

(***************************************************************************)
(* C8: the round trip through the tabular codec                            *)
(***************************************************************************)
IsScalar(v) == v.t \in {"null", "bool", "num", "str", "jsontext"}

\* x has only scalar fields and one-level nested mappings of scalars.
ScalarsAndNested(x) ==
    \A k \in DOMAIN x :
        \/ IsScalar(x[k])
        \/ IsDict(x[k]) /\ \A j \in DOMAIN x[k].m : IsScalar(x[k].m[j])

\* x without its empty-string fields, nested ones included.
DropEmptyStrings(x) ==
    [k \in {j \in DOMAIN x : x[j] # Str("")} |->
        IF IsDict(x[k])
        THEN Map([j \in {i \in DOMAIN x[k].m : x[k].m[i] # Str("")} |-> x[k].m[j]])
        ELSE x[k]]

\* C8 as claimed: for every object x of result["data"] with only scalar fields
\* and one-level nested mappings, the row read back from the file _save_csv
\* wrote decodes to x without its empty-string fields.
C8_RoundTripAsClaimed ==
    c_pc = "read" =>
        \A i \in DOMAIN c_data \cap DOMAIN c_out :
            ScalarsAndNested(c_data[i]) =>
                c_out[i] = Map(DropEmptyStrings(c_data[i]))

\* A field that reaches the file as a non-empty cell.
Kept(v) == IsScalar(v) /\ v.t # "null" /\ v # Str("")

\* x as the codec returns it: numbers and booleans as their text, null and
\* empty-string fields absent, a nested mapping left without fields absent.
TextForm(x) ==
    LET keptSubs(k) == {j \in DOMAIN x[k].m : Kept(x[k].m[j])}
        keptKeys == {k \in DOMAIN x :
                        IF IsDict(x[k]) THEN keptSubs(k) # {} ELSE Kept(x[k])}
    IN  [k \in keptKeys |->
            IF IsDict(x[k])
            THEN Map([j \in keptSubs(k) |-> PyStr(x[k].m[j])])
            ELSE PyStr(x[k])]

HasCarriageReturn(v) == v = Str("x<CR>y")

\* The objects the amended round trip covers: keys without ".", scalar fields
\* and one-level nested mappings of scalars, no top-level string that is the
\* text of a JSON list or object, no string with a carriage return.
RoundTripDomain(x) ==
    /\ ScalarsAndNested(x)
    /\ \A k \in DOMAIN x :
          /\ Len(k) = 1
          /\ ~(x[k].t = "jsontext")
          /\ ~HasCarriageReturn(x[k])
          /\ IsDict(x[k]) =>
                \A j \in DOMAIN x[k].m : Len(j) = 1 /\ ~HasCarriageReturn(x[k].m[j])

\* C8, amended: when the written file has at least one column, every object of
\* RoundTripDomain decodes to its TextForm.
C8_RoundTripAmended ==
    c_pc = "read" /\ c_file.headers # <<>> =>
        \A i \in DOMAIN c_data :
            RoundTripDomain(c_data[i]) =>
                /\ i \in DOMAIN c_out
                /\ c_out[i] = Map(TextForm(c_data[i]))

\* A round trip of an object with a nested mapping, an empty string inside it
\* and a number beside it.
C8_Witness ==
    /\ c_pc = "read"
    /\ Len(c_data) = 1
    /\ RoundTripDomain(c_data[1])
    /\ c_data[1] = (<<"a">> :> Map(<<"b">> :> Str("a") @@ <<"c">> :> Str(""))
                     @@ <<"b">> :> Num(1))
    /\ c_out[1] = Map(<<"a">> :> Map(<<"b">> :> Str("a")) @@ <<"b">> :> Str("1"))

====
